---- MODULE Spec2Model ----
(***************************************************************************)
(* CanonicalForm (canonical_form.py): the constructor's ordered checks of  *)
(* nine computations, the nine read-only accessors and summary().          *)
(*                                                                         *)
(* The constructor is modelled statement by statement: pc is the position  *)
(* of __init__, one action per check statement, in the order of the        *)
(* source.  A raise ends construction in pc = "rejected" with the error    *)
(* in err; falling through line 402 ends it in pc = "constructed".         *)
(***************************************************************************)
EXTENDS Integers, Sequences, FiniteSets, TLC

(***************************************************************************)
(* Bounds of the model.                                                    *)
(***************************************************************************)
\* How many of the nine arguments may differ from the well-formed baseline.
MaxDeviations == 2

(***************************************************************************)
(* computation_types: tensor, named tuple (struct) and function types.     *)
(* Every type is a record of the same three fields, so that == and != of   *)
(* the source are the equality of TLA+.                                    *)
(***************************************************************************)
TensorType(dtype) == [tag |-> "tensor", dtype |-> dtype, elems |-> <<>>]
NamedTupleType(elements) == [tag |-> "struct", dtype |-> "", elems |-> elements]
FunctionType(p, r) == [tag |-> "function", dtype |-> "", elems |-> <<p, r>>]
\* Python's None, the parameter of a no-argument computation.
NoneType == [tag |-> "none", dtype |-> "", elems |-> <<>>]

IsFunctionType(t) == t.tag = "function"
IsNamedTupleType(t) == t.tag = "struct"
parameter(t) == t.elems[1]
result(t) == t.elems[2]
len(t) == Len(t.elems)

\* Tensor shapes: a target of unknown dimension accepts a known one, never
\* the other way round.
Widening == {<<"int32[?]", "int32[3]">>}

RECURSIVE is_assignable_from(_, _)
is_assignable_from(target, source) ==
  CASE target.tag = "tensor" ->
         /\ source.tag = "tensor"
         /\ \/ target.dtype = source.dtype
            \/ <<target.dtype, source.dtype>> \in Widening
    [] target.tag = "struct" ->
         /\ source.tag = "struct"
         /\ Len(target.elems) = Len(source.elems)
         /\ \A k \in 1..Len(target.elems) :
              is_assignable_from(target.elems[k], source.elems[k])
    [] target.tag = "function" ->
         /\ source.tag = "function"
         /\ target.elems = source.elems
    [] OTHER -> FALSE

RECURSIVE JoinReps(_, _)
RECURSIVE compact_representation(_)
\* The compact notation of a type: int32, <a,b>, (p -> r), ( -> r).
compact_representation(t) ==
  CASE t.tag = "tensor" -> t.dtype
    [] t.tag = "struct" -> "<" \o JoinReps(t.elems, 1) \o ">"
    [] t.tag = "function" ->
         "(" \o (IF parameter(t) = NoneType THEN ""
                 ELSE compact_representation(parameter(t)))
             \o " -> " \o compact_representation(result(t)) \o ")"
    [] OTHER -> "None"
JoinReps(es, k) ==
  IF k > Len(es) THEN ""
  ELSE compact_representation(es[k])
         \o (IF k < Len(es) THEN "," ELSE "") \o JoinReps(es, k + 1)

(***************************************************************************)
(* The nine constructor arguments, in the order of the signature.          *)
(***************************************************************************)
Labels == <<"initialize", "prepare", "work", "zero", "accumulate", "merge",
            "report", "bitwidth", "update">>
Stages == {Labels[k] : k \in 1..Len(Labels)}
IndexOf(label) == CHOOSE k \in 1..Len(Labels) : Labels[k] = label

\* A computation: ref is the identity of the Python object, which_comp the
\* populated oneof of its proto, type_signature its TFF type.
Computation(ref, which_comp, type_signature) ==
  [ref |-> ref, which_comp |-> which_comp, type_signature |-> type_signature]
\* The value of a field of self that no statement has assigned.
Unset == Computation(0, "", NoneType)

\* The abstract types of one round.
S == TensorType("int32")
D == TensorType("string")
C == TensorType("float32")
U == TensorType("bool")
B == TensorType("int64")
A == TensorType("int32[3]")
AW == TensorType("int32[?]")
R == TensorType("float64")
X == NamedTupleType(<<>>)
Y == NamedTupleType(<<>>)

WorkParameter == NamedTupleType(<<D, C>>)
WorkResult == NamedTupleType(<<NamedTupleType(<<U, B>>), Y>>)
UpdateParameter == NamedTupleType(<<S, NamedTupleType(<<R, B>>)>>)
UpdateResult == NamedTupleType(<<S, X>>)

\* A well-formed set of signatures.
BaselineSignature ==
  [l \in Stages |->
     CASE l = "initialize" -> FunctionType(NoneType, S)
       [] l = "prepare" -> FunctionType(S, C)
       [] l = "work" -> FunctionType(WorkParameter, WorkResult)
       [] l = "zero" -> FunctionType(NoneType, A)
       [] l = "accumulate" -> FunctionType(NamedTupleType(<<AW, U>>), A)
       [] l = "merge" -> FunctionType(NamedTupleType(<<AW, AW>>), A)
       [] l = "report" -> FunctionType(AW, R)
       [] l = "bitwidth" -> FunctionType(NoneType, S)
       [] l = "update" -> FunctionType(UpdateParameter, UpdateResult)]

\* The other signatures an argument is drawn from.
OtherSignatures ==
  [l \in Stages |->
     CASE l = "initialize" -> <<FunctionType(NoneType, C), S>>
       [] l = "prepare" -> <<FunctionType(C, C), FunctionType(S, S)>>
       [] l = "work" ->
            <<FunctionType(C, WorkResult),
             FunctionType(NamedTupleType(<<D, C, C>>), WorkResult),
             FunctionType(NamedTupleType(<<D, S>>), WorkResult),
             FunctionType(WorkParameter, U),
             FunctionType(WorkParameter, NamedTupleType(<<U, Y>>)),
             FunctionType(WorkParameter,
                          NamedTupleType(<<NamedTupleType(<<>>), Y>>)),
             FunctionType(WorkParameter,
                          NamedTupleType(<<NamedTupleType(<<U>>), Y>>)),
             FunctionType(WorkParameter,
                          NamedTupleType(<<NamedTupleType(<<B, U>>), Y>>))>>
       [] l = "zero" ->
            <<FunctionType(S, A), FunctionType(NoneType, C),
             FunctionType(NoneType, AW), A>>
       [] l = "accumulate" ->
            <<FunctionType(AW, A),
             FunctionType(NamedTupleType(<<AW, U, U>>), A),
             FunctionType(NamedTupleType(<<AW, B>>), A),
             FunctionType(NamedTupleType(<<A, U>>), AW),
             FunctionType(NamedTupleType(<<C, U>>), A),
             NamedTupleType(<<AW, U>>)>>
       [] l = "merge" ->
            <<FunctionType(AW, A),
             FunctionType(NamedTupleType(<<AW, AW, AW>>), A),
             FunctionType(NamedTupleType(<<AW, C>>), A),
             FunctionType(NamedTupleType(<<C, AW>>), A),
             FunctionType(NamedTupleType(<<A, A>>), AW)>>
       [] l = "report" ->
            <<FunctionType(C, R), FunctionType(NoneType, R),
             FunctionType(AW, S), FunctionType(A, R)>>
       [] l = "bitwidth" ->
            <<FunctionType(S, C), S,
              FunctionType(AW, NamedTupleType(<<S, S>>))>>
       [] l = "update" ->
            <<FunctionType(NamedTupleType(<<S, R>>), UpdateResult),
             FunctionType(UpdateParameter, S),
             FunctionType(UpdateParameter, NamedTupleType(<<S, X, X>>)),
             FunctionType(UpdateParameter, NamedTupleType(<<C, X>>)),
             FunctionType(UpdateParameter, NamedTupleType(<<S, S>>))>>]

\* The oneof cases of a computation proto that are not plain TensorFlow.
OtherKinds == <<"lambda", "intrinsic">>

Baseline ==
  [l \in Stages |-> Computation(IndexOf(l), "tensorflow", BaselineSignature[l])]

\* What argument l may be instead of the baseline's: plain TensorFlow of
\* another signature, or a computation that is not plain TensorFlow.
Others(l) ==
  [k \in 1..Len(OtherSignatures[l]) |->
     Computation(IndexOf(l), "tensorflow", OtherSignatures[l][k])]
    \o [k \in 1..Len(OtherKinds) |->
          Computation(IndexOf(l), OtherKinds[k], BaselineSignature[l])]
    \o <<Computation(IndexOf(l), OtherKinds[1], OtherSignatures[l][1])>>

\* The argument tuple that differs from the baseline in the places of the
\* domain of choice, where argument l is the choice[l]-th of Others(l).
Deviating(choice) ==
  [l \in Stages |->
     IF l \in DOMAIN choice THEN Others(l)[choice[l]] ELSE Baseline[l]]

\* The longest list of Others.
MostOthers ==
  CHOOSE n \in {Len(Others(l)) : l \in Stages} :
    \A l \in Stages : Len(Others(l)) <= n

\* The choices that make at most MaxDeviations arguments differ.
Choices ==
  UNION {{c \in [ls -> 1..MostOthers] :
            \A l \in ls : c[l] <= Len(Others(l))}
           : ls \in {ls \in SUBSET Stages : Cardinality(ls) <= MaxDeviations}}

VARIABLES
  args,      \* the nine arguments of the constructor call, by name
  pc,        \* the statement of __init__ to run next, or how it ended
  i,         \* the index of the for loop of lines 279-302
  err,       \* the exception __init__ raised, Ok while none
  self,      \* the fields _initialize .. _update of the instance
  read,      \* the last accessor read: the property and what it returned
  computations, \* the list summary() built, <<>> outside a call
  printed,   \* the lines given to print_fn by the current call of summary()
  first      \* how an earlier constructor call ended, NoFirst while none

vars == <<args, pc, i, err, self, read, computations, printed, first>>

(***************************************************************************)
(* Exceptions.  exc is the Python exception class; check the statement     *)
(* that raised it; stages the argument names its message spells out;       *)
(* found the oneof case its message reports.  raised is "validation" for   *)
(* an exception a raise statement or a check_* helper of __init__ raises   *)
(* on purpose, "fault" for one the evaluation of an operand raises         *)
(* (attribute access, len(), indexing).                                    *)
(***************************************************************************)
Ok == [exc |-> "", raised |-> "", check |-> "", stages |-> {}, found |-> ""]
Raise(exc, check, stages) ==
  [exc |-> exc, raised |-> "validation", check |-> check, stages |-> stages,
   found |-> ""]
Fault(exc, check) ==
  [exc |-> exc, raised |-> "fault", check |-> check, stages |-> {},
   found |-> ""]

type_signature(l) == args[l].type_signature
\* x.type_signature.parameter / .result of a type that is no FunctionType.
NoAttribute(ls) == \E l \in ls : ~IsFunctionType(type_signature(l))

\* py_typecheck.check_type(x.type_signature, FunctionType): the message
\* names the two Python types, no argument label is passed.
check_type(l, check) ==
  IF IsFunctionType(type_signature(l)) THEN Ok
  ELSE Raise("TypeError", check, {})

\* py_typecheck.check_len(target, 2): len() of a type that has no length
\* is Python's TypeError; another length is a ValueError.
check_len(target, check) ==
  IF ~IsNamedTupleType(target) THEN Fault("TypeError", check)
  ELSE IF len(target) # 2 THEN Raise("ValueError", check, {})
  ELSE Ok

\* type_analysis.check_assignable_from(target, source).
check_assignable_from(target, source, check) ==
  IF is_assignable_from(target, source) THEN Ok
  ELSE Raise("TypeError", check, {})

\* t[k - 1] of the source (Python counts from 0): what evaluating it raises.
IndexFault(t, k, check) ==
  IF ~IsNamedTupleType(t) THEN Fault("TypeError", check)
  ELSE IF len(t) < k THEN Fault("IndexError", check)
  ELSE Ok

(***************************************************************************)
(* The statements of __init__, each as the exception it raises (Ok: none). *)
(***************************************************************************)
\* No constructor call has ended yet.
NoFirst == [ended |-> "", err |-> Ok, bitwidth |-> Unset]

\* KindOutcome with the loop skipped once a call has validated or rejected
\* arguments before, as a cache of the verdict kept across calls would.
KindOutcomeCached(k) ==
  IF first = NoFirst /\ args[Labels[k]].which_comp # "tensorflow"
  THEN [exc |-> "TypeError", raised |-> "validation", check |-> "kind",
        stages |-> {}, found |-> args[Labels[k]].which_comp]
  ELSE Ok

\* KindOutcome with a loop that stops one argument short.
KindOutcomeSkippingLast(k) ==
  IF k < Len(Labels) /\ args[Labels[k]].which_comp # "tensorflow"
  THEN [exc |-> "TypeError", raised |-> "validation", check |-> "kind",
        stages |-> {}, found |-> args[Labels[k]].which_comp]
  ELSE Ok

\* KindOutcome with a message that formats the oneof case of the last
\* argument instead of the one under test.
KindOutcomeReportingLast(k) ==
  IF args[Labels[k]].which_comp # "tensorflow"
  THEN [exc |-> "TypeError", raised |-> "validation", check |-> "kind",
        stages |-> {}, found |-> args[Labels[Len(Labels)]].which_comp]
  ELSE Ok

\* Lines 290-302, for the argument at position k of the loop.  Every
\* argument is a computation_base.Computation that embeds a
\* computation_pb2.Computation, so lines 290 and 296-298 raise nothing.
KindOutcome(k) ==
  IF args[Labels[k]].which_comp # "tensorflow"
  THEN [exc |-> "TypeError", raised |-> "validation", check |-> "kind",
        stages |-> {}, found |-> args[Labels[k]].which_comp]
  ELSE Ok

\* Lines 304-309.
PrepareParameterOutcome ==
  IF NoAttribute({"prepare", "initialize"})
  THEN Fault("AttributeError", "prepare_parameter")
  ELSE IF parameter(type_signature("prepare"))
            # result(type_signature("initialize"))
  THEN Raise("TypeError", "prepare_parameter", {"prepare", "initialize"})
  ELSE Ok

\* Lines 311-316.
WorkParameterShapeOutcome ==
  IF NoAttribute({"work"}) THEN Fault("AttributeError", "work_parameter_shape")
  ELSE IF \/ ~IsNamedTupleType(parameter(type_signature("work")))
          \/ len(parameter(type_signature("work"))) # 2
  THEN Raise("TypeError", "work_parameter_shape", {"work"})
  ELSE Ok

\* Lines 318-323.
WorkParameterElementOutcome ==
  IF NoAttribute({"work", "prepare"})
  THEN Fault("AttributeError", "work_parameter_element")
  ELSE IF IndexFault(parameter(type_signature("work")), 2,
                     "work_parameter_element") # Ok
  THEN IndexFault(parameter(type_signature("work")), 2,
                  "work_parameter_element")
  ELSE IF parameter(type_signature("work")).elems[2]
            # result(type_signature("prepare"))
  THEN Raise("TypeError", "work_parameter_element", {"work", "prepare"})
  ELSE Ok

\* Lines 325-330.
WorkResultShapeOutcome ==
  IF NoAttribute({"work"}) THEN Fault("AttributeError", "work_result_shape")
  ELSE IF \/ ~IsNamedTupleType(result(type_signature("work")))
          \/ len(result(type_signature("work"))) # 2
  THEN Raise("TypeError", "work_result_shape", {"work"})
  ELSE Ok

\* Line 332.
ZeroFunctionOutcome == check_type("zero", "zero_function")

\* Lines 334-335.
AccumulateFunctionOutcome == check_type("accumulate", "accumulate_function")

\* Line 336.
AccumulateLenOutcome ==
  IF NoAttribute({"accumulate"}) THEN Fault("AttributeError", "accumulate_len")
  ELSE check_len(parameter(type_signature("accumulate")), "accumulate_len")

\* Lines 337-338.
AccumulateZeroOutcome ==
  IF NoAttribute({"accumulate", "zero"})
  THEN Fault("AttributeError", "accumulate_zero")
  ELSE IF IndexFault(parameter(type_signature("accumulate")), 1,
                     "accumulate_zero") # Ok
  THEN IndexFault(parameter(type_signature("accumulate")), 1,
                  "accumulate_zero")
  ELSE check_assignable_from(parameter(type_signature("accumulate")).elems[1],
                             result(type_signature("zero")),
                             "accumulate_zero")

\* work.type_signature.result[0][k - 1]: what evaluating it raises.
WorkResultFirstFault(k, check) ==
  IF NoAttribute({"work"}) THEN Fault("AttributeError", check)
  ELSE IF IndexFault(result(type_signature("work")), 1, check) # Ok
  THEN IndexFault(result(type_signature("work")), 1, check)
  ELSE IndexFault(result(type_signature("work")).elems[1], k, check)

\* Lines 339-346.
AccumulateUpdateOutcome ==
  IF NoAttribute({"accumulate"})
  THEN Fault("AttributeError", "accumulate_update")
  ELSE IF IndexFault(parameter(type_signature("accumulate")), 2,
                     "accumulate_update") # Ok
  THEN IndexFault(parameter(type_signature("accumulate")), 2,
                  "accumulate_update")
  ELSE IF WorkResultFirstFault(1, "accumulate_update") # Ok
  THEN WorkResultFirstFault(1, "accumulate_update")
  ELSE IF parameter(type_signature("accumulate")).elems[2]
            # result(type_signature("work")).elems[1].elems[1]
  THEN Raise("TypeError", "accumulate_update", {"accumulate", "work"})
  ELSE Ok

\* Lines 347-348.
AccumulateResultOutcome ==
  IF NoAttribute({"accumulate"})
  THEN Fault("AttributeError", "accumulate_result")
  ELSE IF IndexFault(parameter(type_signature("accumulate")), 1,
                     "accumulate_result") # Ok
  THEN IndexFault(parameter(type_signature("accumulate")), 1,
                  "accumulate_result")
  ELSE check_assignable_from(parameter(type_signature("accumulate")).elems[1],
                             result(type_signature("accumulate")),
                             "accumulate_result")

\* Lines 350-351.
MergeFunctionOutcome == check_type("merge", "merge_function")

\* Line 352.
MergeLenOutcome ==
  IF NoAttribute({"merge"}) THEN Fault("AttributeError", "merge_len")
  ELSE check_len(parameter(type_signature("merge")), "merge_len")

\* merge.type_signature.parameter[k - 1] against source: lines 353-358.
MergeAssignable(k, source, check) ==
  IF NoAttribute({"merge", "accumulate"}) THEN Fault("AttributeError", check)
  ELSE IF IndexFault(parameter(type_signature("merge")), k, check) # Ok
  THEN IndexFault(parameter(type_signature("merge")), k, check)
  ELSE check_assignable_from(parameter(type_signature("merge")).elems[k],
                             result(type_signature(source)), check)

\* Lines 353-354.
MergeFirstOutcome == MergeAssignable(1, "accumulate", "merge_first")

\* Lines 355-356.
MergeSecondOutcome == MergeAssignable(2, "accumulate", "merge_second")

\* Lines 357-358.
MergeResultOutcome == MergeAssignable(1, "merge", "merge_result")

\* Lines 360-361.
ReportFunctionOutcome == check_type("report", "report_function")

\* Lines 362-363.
ReportParameterOutcome ==
  IF NoAttribute({"report", "merge"})
  THEN Fault("AttributeError", "report_parameter")
  ELSE check_assignable_from(parameter(type_signature("report")),
                             result(type_signature("merge")),
                             "report_parameter")

\* BitwidthFunctionOutcome with bitwidth required to take no parameter, as
\* zero and initialize are documented to.
BitwidthFunctionOutcomeNiladic ==
  IF ~IsFunctionType(type_signature("bitwidth"))
       \/ parameter(type_signature("bitwidth")) # NoneType
  THEN Raise("TypeError", "bitwidth_function", {})
  ELSE Ok

\* Lines 365-366.
BitwidthFunctionOutcome == check_type("bitwidth", "bitwidth_function")

\* Lines 368-371; evaluated only where UpdateParameterOutcome found no fault.
expected_update_parameter_type ==
  NamedTupleType(<<result(type_signature("initialize")),
                   NamedTupleType(
                     <<result(type_signature("report")),
                       result(type_signature("work")).elems[1].elems[2]>>)>>)

\* Lines 368-377.
UpdateParameterOutcome ==
  IF NoAttribute({"initialize", "report"})
  THEN Fault("AttributeError", "update_parameter")
  ELSE IF WorkResultFirstFault(2, "update_parameter") # Ok
  THEN WorkResultFirstFault(2, "update_parameter")
  ELSE IF NoAttribute({"update"})
  THEN Fault("AttributeError", "update_parameter")
  ELSE IF parameter(type_signature("update")) # expected_update_parameter_type
  THEN Raise("TypeError", "update_parameter",
             {"update", "initialize", "report", "work"})
  ELSE Ok

\* Lines 379-384.
UpdateResultShapeOutcome ==
  IF NoAttribute({"update"}) THEN Fault("AttributeError", "update_result_shape")
  ELSE IF \/ ~IsNamedTupleType(result(type_signature("update")))
          \/ len(result(type_signature("update"))) # 2
  THEN Raise("TypeError", "update_result_shape", {"update"})
  ELSE Ok

\* Lines 386-392.
UpdateResultElementOutcome ==
  IF NoAttribute({"update", "initialize"})
  THEN Fault("AttributeError", "update_result_element")
  ELSE IF IndexFault(result(type_signature("update")), 1,
                     "update_result_element") # Ok
  THEN IndexFault(result(type_signature("update")), 1,
                  "update_result_element")
  ELSE IF result(type_signature("update")).elems[1]
            # result(type_signature("initialize"))
  THEN Raise("TypeError", "update_result_element", {"update", "initialize"})
  ELSE Ok

(***************************************************************************)
(* __init__, lines 279-402.                                                *)
(***************************************************************************)
NoFields == [l \in Stages |-> Unset]
NoRead == [property |-> "", returned |-> Unset]

Init ==
  /\ \E choice \in Choices : args = Deviating(choice)
  /\ pc = "kind"
  /\ i = 1
  /\ err = Ok
  /\ self = NoFields
  /\ read = NoRead
  /\ computations = <<>>
  /\ printed = <<>>
  /\ first = NoFirst

\* One pass of the loop of lines 279-302.
CheckKind ==
  /\ pc = "kind"
  /\ IF KindOutcome(i) # Ok
     THEN pc' = "rejected" /\ err' = KindOutcome(i) /\ i' = i
     ELSE IF i < Len(Labels)
     THEN pc' = pc /\ err' = err /\ i' = i + 1
     ELSE pc' = "prepare_parameter" /\ err' = err /\ i' = i
  /\ UNCHANGED <<first, args, self, read, computations, printed>>

\* A check statement: it raises, or control reaches the next statement.
Statement(at, outcome, next) ==
  /\ pc = at
  /\ IF outcome # Ok
     THEN pc' = "rejected" /\ err' = outcome
     ELSE pc' = next /\ err' = err
  /\ UNCHANGED <<first, args, i, self, read, computations, printed>>

CheckPrepareParameter ==
  Statement("prepare_parameter", PrepareParameterOutcome,
            "work_parameter_shape")
CheckWorkParameterShape ==
  Statement("work_parameter_shape", WorkParameterShapeOutcome,
            "work_parameter_element")
CheckWorkParameterElement ==
  Statement("work_parameter_element", WorkParameterElementOutcome,
            "work_result_shape")
CheckWorkResultShape ==
  Statement("work_result_shape", WorkResultShapeOutcome, "zero_function")
CheckZeroFunction ==
  Statement("zero_function", ZeroFunctionOutcome, "accumulate_function")
CheckAccumulateFunction ==
  Statement("accumulate_function", AccumulateFunctionOutcome, "accumulate_len")
CheckAccumulateLen ==
  Statement("accumulate_len", AccumulateLenOutcome, "accumulate_zero")
CheckAccumulateZero ==
  Statement("accumulate_zero", AccumulateZeroOutcome, "accumulate_update")
CheckAccumulateUpdate ==
  Statement("accumulate_update", AccumulateUpdateOutcome, "accumulate_result")
CheckAccumulateResult ==
  Statement("accumulate_result", AccumulateResultOutcome, "merge_function")
CheckMergeFunction ==
  Statement("merge_function", MergeFunctionOutcome, "merge_len")
CheckMergeLen ==
  Statement("merge_len", MergeLenOutcome, "merge_first")
CheckMergeFirst ==
  Statement("merge_first", MergeFirstOutcome, "merge_second")
CheckMergeSecond ==
  Statement("merge_second", MergeSecondOutcome, "merge_result")
CheckMergeResult ==
  Statement("merge_result", MergeResultOutcome, "report_function")
CheckReportFunction ==
  Statement("report_function", ReportFunctionOutcome, "report_parameter")
CheckReportParameter ==
  Statement("report_parameter", ReportParameterOutcome, "bitwidth_function")
CheckBitwidthFunction ==
  Statement("bitwidth_function", BitwidthFunctionOutcome, "update_parameter")
CheckUpdateParameter ==
  Statement("update_parameter", UpdateParameterOutcome, "update_result_shape")
CheckUpdateResultShape ==
  Statement("update_result_shape", UpdateResultShapeOutcome,
            "update_result_element")
CheckUpdateResultElement ==
  Statement("update_result_element", UpdateResultElementOutcome, "assign")

\* AssignedFields with the last assignment missing.
AssignedFieldsWithoutUpdate ==
  [l \in Stages |-> IF l = "update" THEN Unset ELSE args[l]]

\* Lines 394-402: the fields of self after the nine assignments.
AssignedFields ==
  [l \in Stages |->
     CASE l = "initialize" -> args["initialize"]
       [] l = "prepare" -> args["prepare"]
       [] l = "work" -> args["work"]
       [] l = "zero" -> args["zero"]
       [] l = "accumulate" -> args["accumulate"]
       [] l = "merge" -> args["merge"]
       [] l = "report" -> args["report"]
       [] l = "bitwidth" -> args["bitwidth"]
       [] l = "update" -> args["update"]]

\* Lines 394-402 and the return of __init__: straight-line assignments,
\* none of which can raise, on an object no caller holds yet.
AssignFields ==
  /\ pc = "assign"
  /\ self' = AssignedFields
  /\ pc' = "constructed"
  /\ UNCHANGED <<first, args, i, err, read, computations, printed>>

\* Accessor with the update property returning the _initialize field.
AccessorUpdateReturnsInitialize(l) ==
  IF l = "update" THEN self["initialize"] ELSE self[l]

(***************************************************************************)
(* The properties, lines 404-438.                                          *)
(***************************************************************************)
Accessor(l) ==
  CASE l = "initialize" -> self["initialize"]
    [] l = "prepare" -> self["prepare"]
    [] l = "work" -> self["work"]
    [] l = "zero" -> self["zero"]
    [] l = "accumulate" -> self["accumulate"]
    [] l = "merge" -> self["merge"]
    [] l = "report" -> self["report"]
    [] l = "bitwidth" -> self["bitwidth"]
    [] l = "update" -> self["update"]

ReadAccessor(l) ==
  /\ pc = "constructed"
  /\ read' = [property |-> l, returned |-> Accessor(l)]
  /\ UNCHANGED <<first, args, pc, i, err, self, computations, printed>>

(***************************************************************************)
(* summary(print_fn), lines 440-461.                                       *)
(***************************************************************************)
\* Lines 447-457.
SummaryComputations ==
  << <<"initialize", Accessor("initialize")>>,
     <<"prepare", Accessor("prepare")>>,
     <<"work", Accessor("work")>>,
     <<"zero", Accessor("zero")>>,
     <<"accumulate", Accessor("accumulate")>>,
     <<"merge", Accessor("merge")>>,
     <<"report", Accessor("report")>>,
     <<"bitwidth", Accessor("bitwidth")>>,
     <<"update", Accessor("initialize")>> >>

RECURSIVE Spaces(_)
Spaces(n) == IF n <= 0 THEN "" ELSE " " \o Spaces(n - 1)

\* Format with the label right-justified, '{:>10}: {}'.
FormatRightJustified(name, rep) ==
  Spaces(10 - Len(name)) \o name \o ": " \o rep

\* Lines 460-461: '{:<10}: {}'.format(name, rep).
Format(name, rep) == name \o Spaces(10 - Len(name)) \o ": " \o rep

\* The call: the list of lines 447-457 is built, print_fn has no line yet.
SummaryBegin ==
  /\ pc = "constructed"
  /\ computations = <<>>
  /\ computations' = SummaryComputations
  /\ printed' = <<>>
  /\ UNCHANGED <<first, args, pc, i, err, self, read>>

\* One pass of the loop of lines 458-461.
SummaryPrint ==
  /\ computations # <<>>
  /\ Len(printed) < Len(computations)
  /\ LET name == computations[Len(printed) + 1][1]
         comp == computations[Len(printed) + 1][2]
     IN printed' = Append(printed,
                          Format(name,
                                 compact_representation(comp.type_signature)))
  /\ UNCHANGED <<first, args, pc, i, err, self, read, computations>>

\* The loop is exhausted and summary returns; print_fn keeps its lines.
SummaryReturn ==
  /\ computations # <<>>
  /\ Len(printed) = Len(computations)
  /\ computations' = <<>>
  /\ UNCHANGED <<first, args, pc, i, err, self, read, printed>>

Next ==
  \/ CheckKind
  \/ CheckPrepareParameter
  \/ CheckWorkParameterShape
  \/ CheckWorkParameterElement
  \/ CheckWorkResultShape
  \/ CheckZeroFunction
  \/ CheckAccumulateFunction
  \/ CheckAccumulateLen
  \/ CheckAccumulateZero
  \/ CheckAccumulateUpdate
  \/ CheckAccumulateResult
  \/ CheckMergeFunction
  \/ CheckMergeLen
  \/ CheckMergeFirst
  \/ CheckMergeSecond
  \/ CheckMergeResult
  \/ CheckReportFunction
  \/ CheckReportParameter
  \/ CheckBitwidthFunction
  \/ CheckUpdateParameter
  \/ CheckUpdateResultShape
  \/ CheckUpdateResultElement
  \/ AssignFields
  \/ \E l \in Stages : ReadAccessor(l)
  \/ SummaryBegin
  \/ SummaryPrint
  \/ SummaryReturn

Spec == Init /\ [][Next]_vars

(***************************************************************************)
(* A second call of the constructor, lines 251-402, once the first has     *)
(* returned or raised: a new instance, new locals, and first keeps how the *)
(* first call ended and the bitwidth it was given.                         *)
(***************************************************************************)
Called(again) ==
  /\ pc \in {"constructed", "rejected"}
  /\ computations = <<>>
  /\ first = NoFirst
  /\ first' = [ended |-> pc, err |-> err, bitwidth |-> args["bitwidth"]]
  /\ args' = again
  /\ pc' = "kind"
  /\ i' = 1
  /\ err' = Ok
  /\ self' = NoFields
  /\ read' = NoRead
  /\ computations' = <<>>
  /\ printed' = <<>>

\* The same nine arguments again.
ConstructAgain == Called(args)

\* The plain TensorFlow computations of function type a bitwidth is drawn from.
FunctionBitwidths ==
  {c \in {Baseline["bitwidth"]}
          \cup {Others("bitwidth")[k] : k \in 1..Len(Others("bitwidth"))} :
     c.which_comp = "tensorflow" /\ IsFunctionType(c.type_signature)}

\* The same arguments but for another bitwidth.
ConstructWithBitwidth(b) ==
  /\ b # args["bitwidth"]
  /\ Called([args EXCEPT !["bitwidth"] = b])

NextTwice ==
  \/ Next
  \/ ConstructAgain
  \/ \E b \in FunctionBitwidths : ConstructWithBitwidth(b)

SpecTwice == Init /\ [][NextTwice]_vars

(***************************************************************************)
(* The invariants I1-I12 of the specification, as predicates of the nine   *)
(* arguments.  An invariant that speaks of a part of a type (a parameter,  *)
(* a result, an element) holds only where that part exists.                *)
(***************************************************************************)
IsFn(l) == IsFunctionType(type_signature(l))
Par(l) == parameter(type_signature(l))
Res(l) == result(type_signature(l))
IsTuple(t, n) == IsNamedTupleType(t) /\ len(t) = n
HasElement(t, n) == IsNamedTupleType(t) /\ len(t) >= n

I1 == IsFn("prepare") /\ IsFn("initialize") /\ Par("prepare") = Res("initialize")
I2 ==
  /\ IsFn("work") /\ IsFn("prepare")
  /\ IsTuple(Par("work"), 2)
  /\ Par("work").elems[2] = Res("prepare")
I3 == IsFn("work") /\ IsTuple(Res("work"), 2)
I4 == IsFn("zero") /\ Par("zero") = NoneType
I5 ==
  /\ IsFn("accumulate") /\ IsFn("zero") /\ IsFn("work")
  /\ IsTuple(Par("accumulate"), 2)
  /\ is_assignable_from(Par("accumulate").elems[1], Res("zero"))
  /\ HasElement(Res("work"), 1)
  /\ HasElement(Res("work").elems[1], 1)
  /\ Par("accumulate").elems[2] = Res("work").elems[1].elems[1]
I6 ==
  /\ IsFn("accumulate")
  /\ HasElement(Par("accumulate"), 1)
  /\ is_assignable_from(Par("accumulate").elems[1], Res("accumulate"))
I7 ==
  /\ IsFn("merge") /\ IsFn("accumulate")
  /\ IsTuple(Par("merge"), 2)
  /\ is_assignable_from(Par("merge").elems[1], Res("accumulate"))
  /\ is_assignable_from(Par("merge").elems[2], Res("accumulate"))
  /\ is_assignable_from(Par("merge").elems[1], Res("merge"))
I8 ==
  /\ IsFn("report") /\ IsFn("merge")
  /\ is_assignable_from(Par("report"), Res("merge"))
I9 == IsFn("bitwidth")
\* The side-output type of I10 is read as the second component of the
\* first element of work.result, the per-client update bundle of I3.
I10 ==
  /\ IsFn("update") /\ IsFn("initialize") /\ IsFn("report") /\ IsFn("work")
  /\ HasElement(Res("work"), 1)
  /\ HasElement(Res("work").elems[1], 2)
  /\ Par("update")
       = NamedTupleType(<<Res("initialize"),
                          NamedTupleType(<<Res("report"),
                                           Res("work").elems[1].elems[2]>>)>>)
I11 ==
  /\ IsFn("update") /\ IsFn("initialize")
  /\ IsTuple(Res("update"), 2)
  /\ Res("update").elems[1] = Res("initialize")
I12 == \A l \in Stages : args[l].which_comp = "tensorflow"

Holds(n) ==
  CASE n = 1 -> I1 [] n = 2 -> I2 [] n = 3 -> I3 [] n = 4 -> I4
    [] n = 5 -> I5 [] n = 6 -> I6 [] n = 7 -> I7 [] n = 8 -> I8
    [] n = 9 -> I9 [] n = 10 -> I10 [] n = 11 -> I11 [] n = 12 -> I12
Unmet == {n \in 1..11 : ~Holds(n)}

\* The invariant a statement of __init__ enforces.
InvariantOf(check) ==
  CASE check = "kind" -> 12
    [] check = "prepare_parameter" -> 1
    [] check \in {"work_parameter_shape", "work_parameter_element"} -> 2
    [] check = "work_result_shape" -> 3
    [] check = "zero_function" -> 4
    [] check \in {"accumulate_function", "accumulate_len", "accumulate_zero",
                  "accumulate_update"} -> 5
    [] check = "accumulate_result" -> 6
    [] check \in {"merge_function", "merge_len", "merge_first",
                  "merge_second", "merge_result"} -> 7
    [] check \in {"report_function", "report_parameter"} -> 8
    [] check = "bitwidth_function" -> 9
    [] check = "update_parameter" -> 10
    [] check \in {"update_result_shape", "update_result_element"} -> 11
    [] OTHER -> 0

Constructed == pc = "constructed"
Rejected == pc = "rejected"

(***************************************************************************)
(* C1.  Construction succeeds if and only if I1-I12 all hold: an accepted  *)
(* tuple satisfies every invariant and a rejected one violates some.       *)
(***************************************************************************)
C1_ValidIffInvariants ==
  /\ Constructed => \A n \in 1..12 : Holds(n)
  /\ Rejected => \E n \in 1..12 : ~Holds(n)

(***************************************************************************)
(* C2.  Construction is atomic: in every state either no field of self is  *)
(* set, or all nine are set, construction has returned and every check of  *)
(* __init__ passes on the arguments; a rejected construction leaves no     *)
(* field set.                                                              *)
(***************************************************************************)
AllChecksPass ==
  /\ \A k \in 1..Len(Labels) : KindOutcome(k) = Ok
  /\ PrepareParameterOutcome = Ok
  /\ WorkParameterShapeOutcome = Ok
  /\ WorkParameterElementOutcome = Ok
  /\ WorkResultShapeOutcome = Ok
  /\ ZeroFunctionOutcome = Ok
  /\ AccumulateFunctionOutcome = Ok
  /\ AccumulateLenOutcome = Ok
  /\ AccumulateZeroOutcome = Ok
  /\ AccumulateUpdateOutcome = Ok
  /\ AccumulateResultOutcome = Ok
  /\ MergeFunctionOutcome = Ok
  /\ MergeLenOutcome = Ok
  /\ MergeFirstOutcome = Ok
  /\ MergeSecondOutcome = Ok
  /\ MergeResultOutcome = Ok
  /\ ReportFunctionOutcome = Ok
  /\ ReportParameterOutcome = Ok
  /\ BitwidthFunctionOutcome = Ok
  /\ UpdateParameterOutcome = Ok
  /\ UpdateResultShapeOutcome = Ok
  /\ UpdateResultElementOutcome = Ok

C2_Atomic ==
  /\ self = NoFields \/ \A l \in Stages : self[l] # Unset
  /\ self # NoFields => Constructed /\ AllChecksPass
  /\ Constructed => self # NoFields
  /\ Rejected => self = NoFields /\ err # Ok

\* Construction was rejected by its very last check, and no field is set.
C2_Witness ==
  Rejected /\ err.check = "update_result_element" /\ self = NoFields

(***************************************************************************)
(* C3.  The kind of all nine arguments is checked before any check of a    *)
(* type: no statement after the loop is reached, and nothing is            *)
(* constructed, unless all nine are plain TensorFlow; and with an argument *)
(* that is not, construction is rejected by the kind check, whatever the   *)
(* signatures are.                                                         *)
(***************************************************************************)
C3_KindCheckedFirst ==
  /\ ~I12 => pc \in {"kind", "rejected"}
  /\ Rejected /\ ~I12 =>
       /\ err.check = "kind"
       /\ err.exc = "TypeError"
       /\ err.raised = "validation"

\* Only the last argument is not plain TensorFlow and I1, the first check
\* of a type, is unmet; construction was rejected for the kind.
C3_Witness ==
  /\ Rejected
  /\ err.check = "kind"
  /\ ~I1
  /\ \A l \in Stages : args[l].which_comp # "tensorflow" <=> l = "update"

(***************************************************************************)
(* C4.  As claimed: the error of a kind failure identifies the label of    *)
(* the offending argument and the kind observed on it.                     *)
(***************************************************************************)
FirstOther ==
  Labels[CHOOSE k \in 1..Len(Labels) :
           /\ args[Labels[k]].which_comp # "tensorflow"
           /\ \A j \in 1..(k - 1) : args[Labels[j]].which_comp = "tensorflow"]

Lowest(ns) == CHOOSE n \in ns : \A m \in ns : n <= m

C5_LowestUnmetReported ==
  Rejected /\ I12 /\ Cardinality(Unmet) >= 2 =>
    InvariantOf(err.check) = Lowest(Unmet)

(***************************************************************************)
(* C6.  With nine plain TensorFlow arguments of function type, a           *)
(* parameter or result the constructor indexes that is not a struct of the *)
(* required arity makes construction end with a validation error, never    *)
(* with a fault of len() or of indexing; and where the rejecting statement *)
(* is a check of a shape, its error names a stage whose shape is wrong.    *)
(***************************************************************************)
BadShapes ==
  {l \in {"work", "accumulate", "merge", "update"} :
     /\ IsFn(l)
     /\ CASE l = "work" ->
               \/ ~IsTuple(Par("work"), 2)
               \/ ~IsTuple(Res("work"), 2)
               \/ ~HasElement(Res("work").elems[1], 2)
          [] l = "accumulate" -> ~IsTuple(Par("accumulate"), 2)
          [] l = "merge" -> ~IsTuple(Par("merge"), 2)
          [] l = "update" -> ~IsTuple(Res("update"), 2)}

ShapeChecks ==
  {"work_parameter_shape", "work_result_shape", "accumulate_len", "merge_len",
   "update_result_shape"}

C6_ShapeBeforeContent ==
  Rejected /\ I12 /\ BadShapes # {} /\ (\A l \in Stages : IsFn(l)) =>
    /\ err.raised = "validation"
    /\ err.check \in ShapeChecks => err.stages \cap BadShapes # {}

(***************************************************************************)
(* C7.  zero must be niladic: arguments that meet every other invariant    *)
(* but whose zero takes a parameter are never constructed.                 *)
(***************************************************************************)
C7_ZeroNiladicEnforced ==
  /\ \A n \in (1..12) \ {4} : Holds(n)
  /\ IsFn("zero")
  /\ Par("zero") # NoneType
  => ~Constructed

(***************************************************************************)
(* C8.  On a constructed instance every accessor returns the very          *)
(* argument passed under its name, whatever reads and summary calls came   *)
(* before, and no step after construction changes a field.                 *)
(***************************************************************************)
C8_AccessorsReturnArguments ==
  /\ [](Constructed => \A l \in Stages :
                         /\ Accessor(l) = args[l]
                         /\ Accessor(l).ref = IndexOf(l))
  /\ [](read # NoRead => read.returned = args[read.property])
  /\ [][Constructed => self' = self /\ args' = args]_vars

\* The update property was read after a complete call of summary.
C8_Witness ==
  /\ read.property = "update"
  /\ read.returned.ref = IndexOf("update")
  /\ computations = <<>>
  /\ Len(printed) = Len(Labels)

(***************************************************************************)
(* C9.  A call of summary gives print_fn exactly nine lines, and line k    *)
(* starts with the k-th label of initialize, prepare, work, zero,          *)
(* accumulate, merge, report, bitwidth, update, left-justified in ten      *)
(* characters and followed by ': ', whatever the instance was built from.  *)
(***************************************************************************)
LabelFields ==
  <<"initialize: ", "prepare   : ", "work      : ", "zero      : ",
    "accumulate: ", "merge     : ", "report    : ", "bitwidth  : ",
    "update    : ">>

C9_NineLabelledLines ==
  /\ Len(printed) <= Len(LabelFields)
  /\ \A k \in 1..Len(printed) :
       \E l \in Stages :
         printed[k]
           = LabelFields[k] \o compact_representation(args[l].type_signature)
  /\ Constructed /\ computations = <<>> /\ printed # <<>> =>
       Len(printed) = Len(LabelFields)

\* A call of summary has returned, on an instance other than the baseline.
C9_Witness ==
  /\ Constructed
  /\ computations = <<>>
  /\ Len(printed) = Len(LabelFields)
  /\ args # Baseline

(***************************************************************************)
(* C10.  Every line of summary renders the signature of the stage its      *)
(* label names: line k shows the signature of the computation the k-th     *)
(* accessor returns.                                                       *)
(***************************************************************************)
C10_LineShowsOwnSignature ==
  \A k \in 1..Len(printed) :
    printed[k]
      = LabelFields[k]
          \o compact_representation(Accessor(Labels[k]).type_signature)

(***************************************************************************)
(* C11.  Construction is deterministic: a second call of the constructor   *)
(* on the same nine arguments ends as the first did, both constructed or   *)
(* both rejected with the same error (exception, statement, stages named,  *)
(* kind found).                                                            *)
(***************************************************************************)
Ended == pc \in {"constructed", "rejected"}

FunctionBitwidth(c) ==
  c.which_comp = "tensorflow" /\ IsFunctionType(c.type_signature)

C12_BitwidthUnconstrained ==
  /\ first # NoFirst
  /\ Ended
  /\ args["bitwidth"] # first.bitwidth
  /\ FunctionBitwidth(args["bitwidth"])
  /\ FunctionBitwidth(first.bitwidth)
  => /\ pc = first.ended
     /\ err = first.err

\* Both calls constructed an instance; the first bitwidth takes no
\* parameter, the second takes one and returns another type.
C12_Witness ==
  /\ first # NoFirst
  /\ Constructed
  /\ first.ended = "constructed"
  /\ FunctionBitwidth(first.bitwidth)
  /\ FunctionBitwidth(args["bitwidth"])
  /\ parameter(first.bitwidth.type_signature) = NoneType
  /\ parameter(args["bitwidth"].type_signature) # NoneType
  /\ result(args["bitwidth"].type_signature)
       # result(first.bitwidth.type_signature)
====
